---- MODULE Spec2Model ----
(***************************************************************************)
(* Model of barbicanclient/barbican.py: the Barbican command line          *)
(* application.  build_option_parser registers the global options with     *)
(* defaults read from the environment, the framework parses the command    *)
(* line into self.options, and initialize_app validates the options and    *)
(* builds the API client.                                                  *)
(***************************************************************************)
EXTENDS Naturals, Sequences, FiniteSets, TLC

VARIABLES
    environ,     \* os.environ: environment variable name -> non-empty value
    argv,        \* the options given on the command line: dest -> value
    options,     \* self.options, the parsed argument namespace
    pc,          \* position of the run inside Barbican.run / initialize_app
    auth,        \* the identity credential that was constructed (class, kwargs)
    ks_session,  \* the keystone session that was constructed
    client,      \* self.client
    stderr,      \* what was written to self.stderr
    exc          \* message of the exception that ended the run, "" if none

vars == <<environ, argv, options, pc, auth, ks_session, client, stderr, exc>>

(***************************************************************************)
(* Bounds of the command lines and environments explored by SpecParse.     *)
(***************************************************************************)
MaxEnv == 3
MaxArgs == 1

(***************************************************************************)
(* Program constants and option table.                                     *)
(***************************************************************************)
_DEFAULT_IDENTITY_API_VERSION == "3.0"

\* store_true options (--no-auth of this file, --insecure of the session
\* options registered by session.Session.register_cli_options)
Flags == {"no_auth", "insecure"}

\* valued options other than the identity version
StringDests == {"os_auth_url", "os_username", "os_user_id", "os_password",
                "os_user_domain_id", "os_user_domain_name",
                "os_tenant_name", "os_tenant_id",
                "os_project_id", "os_project_name",
                "os_project_domain_id", "os_project_domain_name",
                "os_auth_token", "endpoint"}

ValuedDests == StringDests \cup {"os_identity_api_version"}

Dests == ValuedDests \cup Flags

\* the environment variable each add_argument names in default=client.env(..)
EnvVar == [os_identity_api_version |-> "OS_IDENTITY_API_VERSION",
           os_auth_url             |-> "OS_AUTH_URL",
           os_username             |-> "OS_USERNAME",
           os_user_id              |-> "OS_USER_ID",
           os_password             |-> "OS_PASSWORD",
           os_user_domain_id       |-> "OS_USER_DOMAIN_ID",
           os_user_domain_name     |-> "OS_USER_DOMAIN_NAME",
           os_tenant_name          |-> "OS_TENANT_NAME",
           os_tenant_id            |-> "OS_TENANT_ID",
           os_project_id           |-> "OS_PROJECT__ID",
           os_project_name         |-> "OS_PROJECT_NAME",
           os_project_domain_id    |-> "OS_PROJECT_DOMAIN_ID",
           os_project_domain_name  |-> "OS_PROJECT_DOMAIN_NAME",
           os_auth_token           |-> "OS_AUTH_TOKEN",
           endpoint                |-> "BARBICAN_ENDPOINT"]

\* the messages of the exceptions initialize_app raises
ConflictMsg == "ERROR: argument --os-auth-url/-A: not allowed with argument --no-auth/-N"
V3Msg == "ERROR: please specify the following --os-project-id or--os-project-name and --os-project-domain-name or --os-project-name and --os-project-domain-id"
V2Msg == "ERROR: please specify --os-tenant-id or--os-tenant-name"
NoAuthMsg == "ERROR: please specify --endpoint and --os-project-id(or --os-tenant-id)"
AuthUrlMsg == "ERROR: please specify --os-auth-url"
CredentialsMsg == "ERROR: please specify authentication credentials"

\* self.parser.format_usage()
Usage == "usage: barbican"

(***************************************************************************)
(* Python truth values: None and '' are false, a non-empty string is true. *)
(***************************************************************************)
Truthy(v) == v # ""

\* a or b, a and b on strings: the value Python returns
Or(a, b) == IF Truthy(a) THEN a ELSE b

And(a, b) == IF Truthy(a) THEN b ELSE a

\* all([...]) and any([...]) over a sequence of strings
all(s) == \A i \in 1..Len(s) : Truthy(s[i])

any(s) == \E i \in 1..Len(s) : Truthy(s[i])

\* the empty keyword dictionary
NoKwargs == [k \in {} |-> ""]

\* dict((k, v) for (k, v) in six.iteritems(kwargs) if v)
Populated(kw) == [k \in {j \in DOMAIN kw : Truthy(kw[j])} |-> kw[k]]

(***************************************************************************)
(* Option parsing.                                                         *)
(***************************************************************************)
\* client.env(name): the value of the environment variable, '' when unset
env(name) == IF name \in DOMAIN environ THEN environ[name] ELSE ""

\* the namespace argparse produces: a store_true flag is True iff given, a
\* valued option is the command line value if given, else its default
parse_args(given) ==
    [d \in Dests |->
        IF d \in Flags THEN d \in DOMAIN given
        ELSE IF d \in DOMAIN given THEN given[d]
        ELSE env(EnvVar[d])]

\* self.options before the command line is parsed: every option unset
NoOptions == [d \in Dests |-> IF d \in Flags THEN FALSE ELSE ""]

(***************************************************************************)
(* Helpers of initialize_app.                                              *)
(***************************************************************************)
\* variant: the test on the auth url inverted
assert_exclusive_inverted(no_auth, auth_url) ==
    no_auth /\ ~Truthy(auth_url)

\* TRUE iff _assert_no_auth_and_auth_url_mutually_exclusive raises
_assert_no_auth_and_auth_url_mutually_exclusive(no_auth, auth_url) ==
    no_auth /\ Truthy(auth_url)

\* the branch on the api version taken at lines 151, 170, 226 and 248
IsV3(api_version) ==
    ~Truthy(api_version) \/ api_version = _DEFAULT_IDENTITY_API_VERSION

v3_arg_combinations(args) ==
    << args.os_project_id,
       And(args.os_project_name, args.os_project_domain_name),
       And(args.os_project_name, args.os_project_domain_id) >>

v2_arg_combinations(args) == << args.os_tenant_id, args.os_tenant_name >>

\* variant: the combinations of both versions accepted whatever the version
check_auth_arguments_any_version(args, api_version) ==
    any(v3_arg_combinations(args)) \/ any(v2_arg_combinations(args))

\* the value _check_auth_arguments returns (successful)
_check_auth_arguments(args, api_version) ==
    IF IsV3(api_version)
    THEN any(v3_arg_combinations(args))
    ELSE any(v2_arg_combinations(args))

\* the msg _check_auth_arguments raises with when it is not successful
_check_auth_arguments_msg(api_version) ==
    IF IsV3(api_version) THEN V3Msg ELSE V2Msg

_build_kwargs_based_on_version(args, api_version) ==
    IF IsV3(api_version)
    THEN Populated([project_id          |-> args.os_project_id,
                    project_name        |-> args.os_project_name,
                    user_domain_id      |-> args.os_user_domain_id,
                    user_domain_name    |-> args.os_user_domain_name,
                    project_domain_id   |-> args.os_project_id,
                    project_domain_name |-> args.os_project_name])
    ELSE Populated([tenant_name |-> args.os_tenant_name,
                    tenant_id   |-> args.os_tenant_id])

\* kwargs.update({'auth_url': ..., 'token': ...}) on the version kwargs
TokenKwargs(args, api_version) ==
    [auth_url |-> args.os_auth_url, token |-> args.os_auth_token]
        @@ _build_kwargs_based_on_version(args, api_version)

\* variant: the password branch reusing _build_kwargs_based_on_version
PasswordKwargs_shared_builder(args, api_version) ==
    [auth_url |-> args.os_auth_url, password |-> args.os_password]
        @@ Populated([user_id  |-> args.os_user_id,
                      username |-> args.os_username])
        @@ _build_kwargs_based_on_version(args, api_version)

\* the kwargs dictionary the password branch fills key by key
PasswordKwargs(args, api_version) ==
    LET base == [auth_url |-> args.os_auth_url, password |-> args.os_password]
        user == Populated([user_id  |-> args.os_user_id,
                           username |-> args.os_username])
        scope == IF IsV3(api_version)
                 THEN Populated([project_id          |-> args.os_project_id,
                                 project_name        |-> args.os_project_name,
                                 user_domain_id      |-> args.os_user_domain_id,
                                 user_domain_name    |-> args.os_user_domain_name,
                                 project_domain_id   |-> args.os_project_domain_id,
                                 project_domain_name |-> args.os_project_domain_name])
                 ELSE Populated([tenant_id   |-> args.os_tenant_id,
                                 tenant_name |-> args.os_tenant_name])
    IN  base @@ user @@ scope

\* the conditions of the if / elif chain of initialize_app
NoAuthBranch == options.no_auth

TokenBranch == ~options.no_auth /\ Truthy(options.os_auth_token)

PasswordFields(args) ==
    all(<< args.os_auth_url,
           Or(args.os_user_id, args.os_username),
           args.os_password,
           Or(Or(Or(args.os_tenant_name, args.os_tenant_id),
                 args.os_project_name), args.os_project_id) >>)

\* variant: the password test an if of its own instead of an elif
PasswordBranch_no_elif == ~options.no_auth /\ PasswordFields(options)

PasswordBranch ==
    ~options.no_auth /\ ~Truthy(options.os_auth_token) /\ PasswordFields(options)

ElseBranch ==
    ~options.no_auth /\ ~Truthy(options.os_auth_token) /\ ~PasswordFields(options)

\* variant: the project id left out of the test
NoAuthIncomplete_endpoint_only(args) == ~Truthy(args.endpoint)

\* not all([args.endpoint, args.os_tenant_id or args.os_project_id])
NoAuthIncomplete(args) ==
    ~all(<< args.endpoint, Or(args.os_tenant_id, args.os_project_id) >>)

(***************************************************************************)
(* The objects the run constructs.                                         *)
(***************************************************************************)
NoAuthObj == [cls |-> "None", kwargs |-> NoKwargs]

NoSession == [created |-> FALSE, auth |-> NoAuthObj, verify |-> FALSE]

NoClient == [created |-> FALSE, kwargs |-> NoKwargs]

\* raise Exception(msg): the run ends with the message
Raise(msg) == pc' = "failed" /\ exc' = msg

(***************************************************************************)
(* Actions.                                                                *)
(***************************************************************************)
\* the framework parses the command line into self.options
ParseArgs ==
    /\ pc = "parse"
    /\ options' = parse_args(argv)
    /\ pc' = "start"
    /\ UNCHANGED <<environ, argv, auth, ks_session, client, stderr, exc>>

\* initialize_app, lines 194-196
AssertMutuallyExclusive ==
    /\ pc = "start"
    /\ IF _assert_no_auth_and_auth_url_mutually_exclusive(options.no_auth,
                                                          options.os_auth_url)
       THEN Raise(ConflictMsg)
       ELSE pc' = "select" /\ exc' = exc
    /\ UNCHANGED <<environ, argv, options, auth, ks_session, client, stderr>>

\* initialize_app, lines 202-211
NoAuth ==
    /\ pc = "select"
    /\ NoAuthBranch
    /\ IF NoAuthIncomplete(options)
       THEN Raise(NoAuthMsg) /\ client' = client
       ELSE /\ client' = [created |-> TRUE,
                          kwargs |-> [endpoint |-> options.endpoint,
                                      project_id |-> Or(options.os_tenant_id,
                                                        options.os_project_id),
                                      verify |-> ~options.insecure]]
            /\ pc' = "done"
            /\ exc' = exc
    /\ UNCHANGED <<environ, argv, options, auth, ks_session, stderr>>

\* variant: the combination check run before the auth url test
TokenValidate_check_first ==
    /\ pc = "select"
    /\ TokenBranch
    /\ IF ~_check_auth_arguments(options, options.os_identity_api_version)
       THEN Raise(_check_auth_arguments_msg(options.os_identity_api_version))
       ELSE IF ~Truthy(options.os_auth_url)
       THEN Raise(AuthUrlMsg)
       ELSE pc' = "token" /\ exc' = exc
    /\ UNCHANGED <<environ, argv, options, auth, ks_session, client, stderr>>

\* initialize_app, lines 213-218
TokenValidate ==
    /\ pc = "select"
    /\ TokenBranch
    /\ IF ~Truthy(options.os_auth_url)
       THEN Raise(AuthUrlMsg)
       ELSE IF ~_check_auth_arguments(options, options.os_identity_api_version)
       THEN Raise(_check_auth_arguments_msg(options.os_identity_api_version))
       ELSE pc' = "token" /\ exc' = exc
    /\ UNCHANGED <<environ, argv, options, auth, ks_session, client, stderr>>

\* initialize_app, lines 220-235
TokenConstruct ==
    /\ pc = "token"
    /\ LET api_version == options.os_identity_api_version
           a == [cls |-> IF IsV3(api_version) THEN "identity.v3.Token"
                                              ELSE "identity.v2.Token",
                 kwargs |-> TokenKwargs(options, api_version)]
           s == [created |-> TRUE, auth |-> a, verify |-> ~options.insecure]
       IN  /\ auth' = a
           /\ ks_session' = s
           /\ client' = [created |-> TRUE,
                         kwargs |-> [session |-> s, endpoint |-> options.endpoint]]
    /\ pc' = "done"
    /\ UNCHANGED <<environ, argv, options, stderr, exc>>

\* variant: the password branch running the combination check first
Password_checked ==
    /\ pc = "select"
    /\ PasswordBranch
    /\ IF ~_check_auth_arguments(options, options.os_identity_api_version)
       THEN /\ Raise(_check_auth_arguments_msg(options.os_identity_api_version))
            /\ UNCHANGED <<auth, ks_session, client>>
       ELSE LET api_version == options.os_identity_api_version
                a == [cls |-> IF IsV3(api_version) THEN "identity.v3.Password"
                                                   ELSE "identity.v2.Password",
                      kwargs |-> PasswordKwargs(options, api_version)]
                s == [created |-> TRUE, auth |-> a, verify |-> ~options.insecure]
            IN  /\ auth' = a
                /\ ks_session' = s
                /\ client' = [created |-> TRUE,
                              kwargs |-> [session |-> s,
                                          endpoint |-> options.endpoint]]
                /\ pc' = "done"
                /\ exc' = exc
    /\ UNCHANGED <<environ, argv, options, stderr>>

\* initialize_app, lines 237-271
Password ==
    /\ pc = "select"
    /\ PasswordBranch
    /\ LET api_version == options.os_identity_api_version
           a == [cls |-> IF IsV3(api_version) THEN "identity.v3.Password"
                                              ELSE "identity.v2.Password",
                 kwargs |-> PasswordKwargs(options, api_version)]
           s == [created |-> TRUE, auth |-> a, verify |-> ~options.insecure]
       IN  /\ auth' = a
           /\ ks_session' = s
           /\ client' = [created |-> TRUE,
                         kwargs |-> [session |-> s, endpoint |-> options.endpoint]]
    /\ pc' = "done"
    /\ UNCHANGED <<environ, argv, options, stderr, exc>>

\* variant: the exception raised without the usage being written
WriteUsage_raise_first ==
    /\ pc = "select"
    /\ ElseBranch
    /\ Raise(CredentialsMsg)
    /\ UNCHANGED <<environ, argv, options, auth, ks_session, client, stderr>>

\* initialize_app, line 273
WriteUsage ==
    /\ pc = "select"
    /\ ElseBranch
    /\ stderr' = Append(stderr, Usage)
    /\ pc' = "usage"
    /\ UNCHANGED <<environ, argv, options, auth, ks_session, client, exc>>

\* initialize_app, line 274
RaiseCredentials ==
    /\ pc = "usage"
    /\ Raise(CredentialsMsg)
    /\ UNCHANGED <<environ, argv, options, auth, ks_session, client, stderr>>

(***************************************************************************)
(* Inputs.                                                                 *)
(***************************************************************************)
\* the identity versions explored: the default, a v2 and an unknown one
Versions == {"3.0", "2.0", "3"}

\* the value a valued option gets from the command line
CliVal(d) == "cli:" \o d

\* the value an environment variable holds
EnvVal(n) == "env:" \o n

\* the environment variables explored: the ones the parser names, and the
\* OS_PROJECT_ID the help text of --os-project-id documents
EnvNames == {EnvVar[d] : d \in ValuedDests} \cup {"OS_PROJECT_ID"}

\* command lines giving the options in S, with version v when it is given
CommandLine(S, v) ==
    [d \in S |-> IF d = "os_identity_api_version" THEN v
                 ELSE IF d \in Flags THEN "" ELSE CliVal(d)]

\* environments setting the variables in S, with version v when it is set
Environment(S, v) ==
    [n \in S |-> IF n = "OS_IDENTITY_API_VERSION" THEN v ELSE EnvVal(n)]

NoEnvironment == [n \in {} |-> ""]

\* every command line
CommandLines == {CommandLine(S, v) : S \in SUBSET Dests, v \in Versions}

\* the command lines giving at most MaxArgs options
BoundedCommandLines ==
    {CommandLine(S, v) : S \in {T \in SUBSET Dests : Cardinality(T) <= MaxArgs},
                         v \in Versions}

\* the environments setting at most MaxEnv variables
BoundedEnvironments ==
    {Environment(S, v) : S \in {T \in SUBSET EnvNames : Cardinality(T) <= MaxEnv},
                         v \in Versions}

Fresh ==
    /\ auth = NoAuthObj
    /\ ks_session = NoSession
    /\ client = NoClient
    /\ stderr = << >>
    /\ exc = ""

\* initialize_app entered with the options of any command line, the
\* environment being empty
Init ==
    /\ environ = NoEnvironment
    /\ argv \in CommandLines
    /\ options = parse_args(argv)
    /\ pc = "start"
    /\ Fresh

Next ==
    \/ AssertMutuallyExclusive
    \/ NoAuth
    \/ TokenValidate
    \/ TokenConstruct
    \/ Password
    \/ WriteUsage
    \/ RaiseCredentials

Spec == Init /\ [][Next]_vars

\* the application constructed in a bounded environment and run with a
\* bounded command line
InitParse ==
    /\ environ \in BoundedEnvironments
    /\ argv \in BoundedCommandLines
    /\ options = NoOptions
    /\ pc = "parse"
    /\ Fresh

NextParse == ParseArgs \/ Next

SpecParse == InitParse /\ [][NextParse]_vars

(***************************************************************************)
(* Vocabulary of the properties.                                           *)
(***************************************************************************)
\* the option d holds a non-empty value
Set(d) == options[d] # ""

\* the run is over
Ended == pc \in {"done", "failed"}

\* the identity version is unset or "3.0"
DefaultVersion == options.os_identity_api_version \in {"", "3.0"}

\* the option each credential keyword is named after
KeyOption == [auth_url            |-> "os_auth_url",
              token               |-> "os_auth_token",
              password            |-> "os_password",
              user_id             |-> "os_user_id",
              username            |-> "os_username",
              project_id          |-> "os_project_id",
              project_name        |-> "os_project_name",
              user_domain_id      |-> "os_user_domain_id",
              user_domain_name    |-> "os_user_domain_name",
              project_domain_id   |-> "os_project_domain_id",
              project_domain_name |-> "os_project_domain_name",
              tenant_id           |-> "os_tenant_id",
              tenant_name         |-> "os_tenant_name"]

V3Keys == {"project_id", "project_name", "user_domain_id", "user_domain_name",
           "project_domain_id", "project_domain_name"}

V2Keys == {"tenant_id", "tenant_name"}

VersionKeys == IF DefaultVersion THEN V3Keys ELSE V2Keys

\* the keys of ks whose own option is non-empty, each with that option's value
OwnValues(ks) == [k \in {j \in ks : Set(KeyOption[j])} |-> options[KeyOption[k]]]

\* the conditions under which the specification selects each mode
TokenMode == pc # "parse" /\ ~options.no_auth /\ Set("os_auth_token")

PasswordMode ==
    /\ pc # "parse"
    /\ ~options.no_auth
    /\ ~Set("os_auth_token")
    /\ Set("os_auth_url")
    /\ (Set("os_user_id") \/ Set("os_username"))
    /\ Set("os_password")
    /\ (Set("os_tenant_name") \/ Set("os_tenant_id")
          \/ Set("os_project_name") \/ Set("os_project_id"))

InvalidMode ==
    /\ pc # "parse"
    /\ ~options.no_auth
    /\ ~Set("os_auth_token")
    /\ ~ /\ Set("os_auth_url")
         /\ (Set("os_user_id") \/ Set("os_username"))
         /\ Set("os_password")
         /\ (Set("os_tenant_name") \/ Set("os_tenant_id")
               \/ Set("os_project_name") \/ Set("os_project_id"))

\* the identity-combination check as the specification states it
CombinationGiven ==
    IF DefaultVersion
    THEN \/ Set("os_project_id")
         \/ (Set("os_project_name") /\ Set("os_project_domain_name"))
         \/ (Set("os_project_name") /\ Set("os_project_domain_id"))
    ELSE Set("os_tenant_id") \/ Set("os_tenant_name")

\* the scoping fields given all belong to the other identity version
OtherVersionScopeOnly ==
    IF DefaultVersion
    THEN ~Set("os_project_id") /\ ~Set("os_project_name")
    ELSE ~Set("os_tenant_id") /\ ~Set("os_tenant_name")

\* the client was built from a session over the credential
SessionClient ==
    /\ client.created
    /\ DOMAIN client.kwargs = {"session", "endpoint"}
    /\ client.kwargs.session = ks_session
    /\ client.kwargs.endpoint = options.endpoint
    /\ ks_session = [created |-> TRUE, auth |-> auth, verify |-> ~options.insecure]

(***************************************************************************)
(* Properties.                                                             *)
(***************************************************************************)
\* C1: with no_auth true and auth_url non-empty, initialize_app fails with
\* the conflicting-options error whatever the other options are, and no
\* client is created.
C1_Conflict ==
    (pc # "parse" /\ options.no_auth /\ Set("os_auth_url")) =>
        /\ ~client.created
        /\ pc # "start" => (pc = "failed" /\ exc = ConflictMsg)

C1_Witness ==
    /\ pc = "failed"
    /\ exc = ConflictMsg
    /\ options.no_auth
    /\ Set("os_auth_url")
    /\ Set("os_auth_token")
    /\ Set("endpoint")
    /\ Set("os_project_id")
    /\ options.os_identity_api_version = "2.0"

\* C2 (as stated): with auth_token non-empty and auth_url empty the run fails
\* with the missing-auth-url error, whatever no_auth and the other options are.
C2_MissingAuthUrlAlways ==
    (Ended /\ Set("os_auth_token") /\ ~Set("os_auth_url")) =>
        (pc = "failed" /\ exc = AuthUrlMsg)

\* C2 (amended): with no_auth false, auth_token non-empty and auth_url empty
\* the run fails with the missing-auth-url error.
C2_MissingAuthUrl ==
    (Ended /\ ~options.no_auth /\ Set("os_auth_token") /\ ~Set("os_auth_url")) =>
        (pc = "failed" /\ exc = AuthUrlMsg /\ ~client.created)

C2_Witness ==
    /\ pc = "failed"
    /\ exc = AuthUrlMsg
    /\ ~options.no_auth
    /\ Set("os_auth_token")
    /\ ~Set("os_auth_url")
    /\ Set("os_project_id")
    /\ Set("endpoint")

\* C3: in Token mode with an auth url the run succeeds iff the identity
\* combination for the version is given (v3: project_id, or project_name with
\* a project domain; other versions: tenant_id or tenant_name), and a failure
\* carries the message of the version's requirement.
C3_TokenCombination ==
    (TokenMode /\ Set("os_auth_url") /\ Ended) =>
        /\ pc = "done" <=> CombinationGiven
        /\ pc = "done" => (client.created /\ exc = "")
        /\ pc = "failed" =>
              /\ exc = (IF DefaultVersion THEN V3Msg ELSE V2Msg)
              /\ ~client.created

C3_Witness ==
    /\ pc = "failed"
    /\ TokenMode
    /\ Set("os_auth_url")
    /\ options.os_identity_api_version = "2.0"
    /\ Set("os_project_id")
    /\ exc = V2Msg

\* C4 (as stated): when Token mode succeeds, the keywords of the token
\* credential are auth_url, token and the non-empty version fields, each
\* carrying the value of its own option.
C4_TokenKwargsOwnValues ==
    (TokenMode /\ pc = "done") =>
        auth.kwargs = OwnValues({"auth_url", "token"} \cup VersionKeys)

\* C5: in Password mode the keywords of the password credential are auth_url,
\* password, the non-empty ones of user_id/username and the non-empty version
\* fields, each carrying the value of its own option; with only auth_url,
\* username, password and project_name set under the default version they
\* are exactly those four.
C5_PasswordKwargs ==
    (PasswordMode /\ pc = "done") =>
        /\ auth.cls = (IF DefaultVersion THEN "identity.v3.Password"
                                         ELSE "identity.v2.Password")
        /\ auth.kwargs = OwnValues({"auth_url", "password", "user_id", "username"}
                                       \cup VersionKeys)
        /\ \A k \in DOMAIN auth.kwargs : auth.kwargs[k] # ""
        /\ ( /\ {d \in StringDests : Set(d)} =
                  {"os_auth_url", "os_username", "os_password", "os_project_name"}
             /\ DefaultVersion )
           => DOMAIN auth.kwargs = {"auth_url", "password", "username", "project_name"}

C5_Witness ==
    /\ pc = "done"
    /\ PasswordMode
    /\ {d \in StringDests : Set(d)} =
          {"os_auth_url", "os_username", "os_password", "os_project_name"}
    /\ options.os_identity_api_version = ""
    /\ DOMAIN auth.kwargs = {"auth_url", "password", "username", "project_name"}

\* C6: with no_auth true and auth_url empty the run succeeds iff endpoint and
\* one of tenant_id, project_id are non-empty; the client is then built from
\* the endpoint, a non-empty project id of those options and verify = not
\* insecure, without credential or session; otherwise the run fails with the
\* missing endpoint/project-id error.
C6_NoAuth ==
    (pc # "parse" /\ options.no_auth /\ ~Set("os_auth_url") /\ Ended) =>
        /\ pc = "done" <=>
              (Set("endpoint") /\ (Set("os_tenant_id") \/ Set("os_project_id")))
        /\ pc = "done" =>
              /\ client.created
              /\ DOMAIN client.kwargs = {"endpoint", "project_id", "verify"}
              /\ client.kwargs.endpoint = options.endpoint
              /\ client.kwargs.project_id # ""
              /\ client.kwargs.project_id \in
                    {options.os_tenant_id, options.os_project_id}
              /\ client.kwargs.verify = ~options.insecure
              /\ auth = NoAuthObj
              /\ ks_session = NoSession
              /\ exc = ""
        /\ pc = "failed" => (exc = NoAuthMsg /\ ~client.created)

C6_Witness ==
    /\ pc = "done"
    /\ options.no_auth
    /\ options.insecure
    /\ Set("os_auth_token")
    /\ Set("os_password")
    /\ ~Set("os_tenant_id")
    /\ Set("os_project_id")
    /\ client.kwargs.project_id = options.os_project_id
    /\ ~client.kwargs.verify

\* C7: when no mode's requirements are met, no client is ever created, the
\* run fails with the missing-credentials error, and the usage text is on
\* the error stream already in the state the failure is raised from.
C7_UsageBeforeFailure ==
    /\ [](InvalidMode =>
            /\ ~client.created
            /\ pc = "failed" => (exc = CredentialsMsg /\ stderr = << Usage >>))
    /\ [][(InvalidMode /\ exc = "" /\ exc' # "") =>
            (stderr = << Usage >> /\ stderr' = stderr)]_vars

C7_Witness ==
    /\ pc = "failed"
    /\ exc = CredentialsMsg
    /\ stderr = << Usage >>
    /\ \A d \in ValuedDests : ~Set(d)
    /\ ~options.no_auth
    /\ ~options.insecure
    /\ ~client.created

\* C8: the modes are tried in the order NoAuth, Token, Password, Invalid and
\* the first match is the only one handled: with no_auth nothing but the
\* NoAuth client is built; with no_auth false and a token no password
\* credential is constructed and no usage is written, and a failed token
\* validation is the end of the run.
C8_FirstMatchWins ==
    /\ []((pc # "parse" /\ options.no_auth) =>
            (auth = NoAuthObj /\ ks_session = NoSession /\ stderr = << >>
             /\ exc \in {"", ConflictMsg, NoAuthMsg}))
    /\ [](TokenMode =>
            /\ auth.cls \in {"None", "identity.v3.Token", "identity.v2.Token"}
            /\ stderr = << >>
            /\ exc \in {"", AuthUrlMsg, V3Msg, V2Msg}
            /\ pc = "failed" => (exc # "" /\ ~client.created))
    /\ [](PasswordMode =>
            /\ auth.cls \in {"None", "identity.v3.Password", "identity.v2.Password"}
            /\ stderr = << >>)
    /\ [][~Ended]_vars

C8_Witness ==
    /\ pc = "failed"
    /\ exc = V3Msg
    /\ TokenMode
    /\ Set("os_auth_url")
    /\ Set("os_username")
    /\ Set("os_password")
    /\ Set("os_tenant_name")
    /\ auth = NoAuthObj
    /\ stderr = << >>

\* C9 (as stated): without --os-project-id on the command line the project_id
\* option is the value of OS_PROJECT_ID, so that with OS_PROJECT_ID, a token
\* and an auth url the v3 combination check passes; a command line value
\* overrides the environment.
C9_ProjectIdFromEnvironment ==
    pc # "parse" =>
        /\ "os_project_id" \notin DOMAIN argv =>
              options.os_project_id =
                  (IF "OS_PROJECT_ID" \in DOMAIN environ
                   THEN environ["OS_PROJECT_ID"] ELSE "")
        /\ "os_project_id" \in DOMAIN argv =>
              options.os_project_id = argv["os_project_id"]
        /\ ( /\ "OS_PROJECT_ID" \in DOMAIN environ
             /\ TokenMode
             /\ Set("os_auth_url")
             /\ DefaultVersion
             /\ Ended ) => pc = "done"

\* C10: Password mode never runs the identity-combination check: the run
\* raises no error and ends with a session-based client over a password
\* credential, whatever the version and the domain fields are; when the only
\* scoping fields given belong to the other identity version, the keywords
\* hold no project or tenant key.
C10_PasswordUnchecked ==
    PasswordMode =>
        /\ exc = ""
        /\ pc # "failed"
        /\ pc = "done" =>
              /\ SessionClient
              /\ auth.cls \in {"identity.v3.Password", "identity.v2.Password"}
              /\ OtherVersionScopeOnly =>
                    DOMAIN auth.kwargs \cap
                        {"project_id", "project_name", "tenant_id", "tenant_name"} = {}

C10_Witness ==
    /\ pc = "done"
    /\ PasswordMode
    /\ options.os_identity_api_version = "2.0"
    /\ Set("os_project_name")
    /\ Set("os_project_domain_name")
    /\ ~Set("os_tenant_id")
    /\ ~Set("os_tenant_name")
    /\ ~Set("os_project_id")
    /\ SessionClient
    /\ DOMAIN auth.kwargs = {"auth_url", "password", "username"}

TypeOK ==
    /\ pc \in {"parse", "start", "select", "token", "usage", "done", "failed"}
    /\ DOMAIN options = Dests
    /\ client.created \in BOOLEAN
====
